---- MODULE Spec2Model ----
(***************************************************************************)
(* A model of the bntx crate: the container built by Bntx::from_surface,   *)
(* the byte layout produced by Bntx::write (BntxOffsets::write_offsets),   *)
(* the binrw decoder of the Bntx struct, and the format mapping of         *)
(* surface.rs.  Files are sequences of bytes; file offset o is index o+1.  *)
(* Integers of the model are the values of the fields; all of them stay    *)
(* below 2^31 in the files the model builds.                               *)
(***************************************************************************)
EXTENDS Integers, Sequences, FiniteSets, TLC

\* ------------------------------------------------------------------ bounds

\* The largest width, height and depth of an input surface, in blocks of 4.
MaxDimBlocks == 3
\* The largest mip count of an input surface.
MaxMips == 3
\* The largest length of a short texture name.
MaxNameLen == 2

\* ------------------------------------------------------- results of calls

Ok(v) == [tag |-> "Ok", val |-> v]
Err(e) == [tag |-> "Err", err |-> e]
Panic(m) == [tag |-> "Panic", msg |-> m]

IsOk(r) == r.tag = "Ok"

Max(a, b) == IF a >= b THEN a ELSE b

Zeros(n) == [i \in 1..n |-> 0]

RECURSIVE SumSeq(_)
SumSeq(s) == IF s = <<>> THEN 0 ELSE Head(s) + SumSeq(Tail(s))

RECURSIVE Flatten(_)
Flatten(ss) == IF ss = <<>> THEN <<>> ELSE Head(ss) \o Flatten(Tail(ss))

\* F(x), with x evaluated once before F uses it (a let binding).
Bind(x, F(_)) == CHOOSE r \in { F(v) : v \in { x } } : TRUE

\* ---------------------------------------------------------------- formats

SurfaceFormats ==
    { "R8Unorm", "Unk1", "R8G8B8A8Unorm", "R8G8B8A8Srgb", "B8G8R8A8Unorm",
      "B8G8R8A8Srgb", "R11G11B10", "BC1Unorm", "BC1Srgb", "BC2Unorm", "BC2Srgb",
      "BC3Unorm", "BC3Srgb", "BC4Unorm", "BC4Snorm", "BC5Unorm", "BC5Snorm",
      "BC6Sfloat", "BC6Ufloat", "BC7Unorm", "BC7Srgb" }

\* The discriminants of enum SurfaceFormat (repr(u32)).
SurfaceFormatRepr(f) ==
    CASE f = "R8Unorm" -> 513
      [] f = "Unk1" -> 2565
      [] f = "R8G8B8A8Unorm" -> 2817
      [] f = "R8G8B8A8Srgb" -> 2822
      [] f = "B8G8R8A8Unorm" -> 3073
      [] f = "B8G8R8A8Srgb" -> 3078
      [] f = "R11G11B10" -> 3845
      [] f = "BC1Unorm" -> 6657
      [] f = "BC1Srgb" -> 6662
      [] f = "BC2Unorm" -> 6913
      [] f = "BC2Srgb" -> 6918
      [] f = "BC3Unorm" -> 7169
      [] f = "BC3Srgb" -> 7174
      [] f = "BC4Unorm" -> 7425
      [] f = "BC4Snorm" -> 7426
      [] f = "BC5Unorm" -> 7681
      [] f = "BC5Snorm" -> 7682
      [] f = "BC6Sfloat" -> 7941
      [] f = "BC6Ufloat" -> 7946
      [] f = "BC7Unorm" -> 8193
      [] f = "BC7Srgb" -> 8198

\* The variants of image_dds::ImageFormat that surface.rs names, and one
\* variant ("Other") standing for those only the wildcard arm matches.
ImageFormats ==
    { "R8Unorm", "Rgba8Unorm", "Rgba8UnormSrgb", "Rgba16Float", "Rgba32Float",
      "Bgra8Unorm", "Bgra8UnormSrgb", "Bgra4Unorm", "BC1RgbaUnorm",
      "BC1RgbaUnormSrgb", "BC2RgbaUnorm", "BC2RgbaUnormSrgb", "BC3RgbaUnorm",
      "BC3RgbaUnormSrgb", "BC4RUnorm", "BC4RSnorm", "BC5RgUnorm", "BC5RgSnorm",
      "BC6hRgbUfloat", "BC6hRgbSfloat", "BC7RgbaUnorm", "BC7RgbaUnormSrgb",
      "Other" }

\* impl TryFrom<SurfaceFormat> for image_dds::ImageFormat
ImageFormatTryFrom(value) ==
    CASE value = "R8Unorm" -> Ok("R8Unorm")
      [] value = "Unk1" -> Err([kind |-> "UnsupportedSurfaceFormat", format |-> value])
      [] value = "R8G8B8A8Unorm" -> Ok("Rgba8Unorm")
      [] value = "R8G8B8A8Srgb" -> Ok("Rgba8UnormSrgb")
      [] value = "B8G8R8A8Unorm" -> Ok("Bgra8Unorm")
      [] value = "B8G8R8A8Srgb" -> Ok("Bgra8UnormSrgb")
      [] value = "R11G11B10" -> Err([kind |-> "UnsupportedSurfaceFormat", format |-> value])
      [] value = "BC1Unorm" -> Ok("BC1RgbaUnorm")
      [] value = "BC1Srgb" -> Ok("BC1RgbaUnormSrgb")
      [] value = "BC2Unorm" -> Ok("BC2RgbaUnorm")
      [] value = "BC2Srgb" -> Ok("BC2RgbaUnormSrgb")
      [] value = "BC3Unorm" -> Ok("BC3RgbaUnorm")
      [] value = "BC3Srgb" -> Ok("BC3RgbaUnormSrgb")
      [] value = "BC4Unorm" -> Ok("BC4RUnorm")
      [] value = "BC4Snorm" -> Ok("BC4RSnorm")
      [] value = "BC5Unorm" -> Ok("BC5RgUnorm")
      [] value = "BC5Snorm" -> Ok("BC5RgSnorm")
      [] value = "BC6Sfloat" -> Ok("BC6hRgbSfloat")
      [] value = "BC6Ufloat" -> Ok("BC6hRgbUfloat")
      [] value = "BC7Unorm" -> Ok("BC7RgbaUnorm")
      [] value = "BC7Srgb" -> Ok("BC7RgbaUnormSrgb")

\* impl TryFrom<image_dds::ImageFormat> for SurfaceFormat, had the two arms of
\* BC6 been written the wrong way round.
SurfaceFormatTryFromSwapped(value) ==
    CASE value = "R8Unorm" -> Ok("R8Unorm")
      [] value = "Rgba8Unorm" -> Ok("R8G8B8A8Unorm")
      [] value = "Rgba8UnormSrgb" -> Ok("R8G8B8A8Srgb")
      [] value = "Bgra8Unorm" -> Ok("B8G8R8A8Unorm")
      [] value = "Bgra8UnormSrgb" -> Ok("B8G8R8A8Srgb")
      [] value = "BC1RgbaUnorm" -> Ok("BC1Unorm")
      [] value = "BC1RgbaUnormSrgb" -> Ok("BC1Srgb")
      [] value = "BC2RgbaUnorm" -> Ok("BC2Unorm")
      [] value = "BC2RgbaUnormSrgb" -> Ok("BC2Srgb")
      [] value = "BC3RgbaUnorm" -> Ok("BC3Unorm")
      [] value = "BC3RgbaUnormSrgb" -> Ok("BC3Srgb")
      [] value = "BC4RUnorm" -> Ok("BC4Unorm")
      [] value = "BC4RSnorm" -> Ok("BC4Snorm")
      [] value = "BC5RgUnorm" -> Ok("BC5Unorm")
      [] value = "BC5RgSnorm" -> Ok("BC5Snorm")
      [] value = "BC6hRgbUfloat" -> Ok("BC6Sfloat")
      [] value = "BC6hRgbSfloat" -> Ok("BC6Ufloat")
      [] value = "BC7RgbaUnorm" -> Ok("BC7Unorm")
      [] value = "BC7RgbaUnormSrgb" -> Ok("BC7Srgb")
      [] OTHER -> Err([kind |-> "UnsupportedImageFormat", format |-> value])

\* impl TryFrom<image_dds::ImageFormat> for SurfaceFormat
SurfaceFormatTryFrom(value) ==
    CASE value = "R8Unorm" -> Ok("R8Unorm")
      [] value = "Rgba8Unorm" -> Ok("R8G8B8A8Unorm")
      [] value = "Rgba8UnormSrgb" -> Ok("R8G8B8A8Srgb")
      [] value = "Rgba16Float" -> Err([kind |-> "UnsupportedImageFormat", format |-> value])
      [] value = "Rgba32Float" -> Err([kind |-> "UnsupportedImageFormat", format |-> value])
      [] value = "Bgra8Unorm" -> Ok("B8G8R8A8Unorm")
      [] value = "Bgra8UnormSrgb" -> Ok("B8G8R8A8Srgb")
      [] value = "Bgra4Unorm" -> Err([kind |-> "UnsupportedImageFormat", format |-> value])
      [] value = "BC1RgbaUnorm" -> Ok("BC1Unorm")
      [] value = "BC1RgbaUnormSrgb" -> Ok("BC1Srgb")
      [] value = "BC2RgbaUnorm" -> Ok("BC2Unorm")
      [] value = "BC2RgbaUnormSrgb" -> Ok("BC2Srgb")
      [] value = "BC3RgbaUnorm" -> Ok("BC3Unorm")
      [] value = "BC3RgbaUnormSrgb" -> Ok("BC3Srgb")
      [] value = "BC4RUnorm" -> Ok("BC4Unorm")
      [] value = "BC4RSnorm" -> Ok("BC4Snorm")
      [] value = "BC5RgUnorm" -> Ok("BC5Unorm")
      [] value = "BC5RgSnorm" -> Ok("BC5Snorm")
      [] value = "BC6hRgbUfloat" -> Ok("BC6Ufloat")
      [] value = "BC6hRgbSfloat" -> Ok("BC6Sfloat")
      [] value = "BC7RgbaUnorm" -> Ok("BC7Unorm")
      [] value = "BC7RgbaUnormSrgb" -> Ok("BC7Srgb")
      [] OTHER -> Err([kind |-> "UnsupportedImageFormat", format |-> value])

\* SurfaceFormat::bytes_per_pixel; todo!() aborts the thread.
bytes_per_pixel(f) ==
    CASE f = "R8Unorm" -> Ok(1)
      [] f = "Unk1" -> Panic("not yet implemented")
      [] f \in {"R8G8B8A8Unorm", "R8G8B8A8Srgb", "B8G8R8A8Unorm", "B8G8R8A8Srgb",
                "R11G11B10"} -> Ok(4)
      [] f \in {"BC1Unorm", "BC1Srgb", "BC4Unorm", "BC4Snorm"} -> Ok(8)
      [] f \in {"BC2Unorm", "BC2Srgb", "BC3Unorm", "BC3Srgb", "BC5Unorm", "BC5Snorm",
                "BC6Sfloat", "BC6Ufloat", "BC7Unorm", "BC7Srgb"} -> Ok(16)

\* tegra_swizzle BlockDim::uncompressed() and BlockDim::block_4x4()
BlockDimUncompressed == [width |-> 1, height |-> 1, depth |-> 1]
BlockDim4x4 == [width |-> 4, height |-> 4, depth |-> 1]

\* SurfaceFormat::block_dim; todo!() aborts the thread.
block_dim(f) ==
    CASE f = "Unk1" -> Panic("not yet implemented")
      [] f \in {"R8Unorm", "R8G8B8A8Unorm", "R8G8B8A8Srgb", "B8G8R8A8Unorm",
                "B8G8R8A8Srgb", "R11G11B10"} -> Ok(BlockDimUncompressed)
      [] OTHER -> Ok(BlockDim4x4)

\* ---------------------------------------------------------- tiling engine
\* The functions of the tegra_swizzle crate that surface.rs and lib.rs call.
\* The permutation of the bytes is outside the model: swizzle_surface returns
\* the source bytes followed by the padding of the tiled layout, so that its
\* length is the tiled size.

GOB_SIZE_IN_BYTES == 8 * 64

div_round_up(x, d) == (x + d - 1) \div d

round_up(x, n) == div_round_up(x, n) * n

\* x >> n on u32, for the shift amounts below 32 that the callers use.
Shr(x, n) == x \div (2 ^ n)

\* tegra_swizzle::block_height_mip0
block_height_mip0(height) ==
    LET height_and_half == height + (height \div 2) IN
    IF height_and_half >= 128 THEN 16
    ELSE IF height_and_half >= 64 THEN 8
    ELSE IF height_and_half >= 32 THEN 4
    ELSE IF height_and_half >= 16 THEN 2
    ELSE 1

block_depth(depth) ==
    LET depth_and_half == depth + (depth \div 2) IN
    IF depth_and_half >= 16 THEN 16
    ELSE IF depth_and_half >= 8 THEN 8
    ELSE IF depth_and_half >= 4 THEN 4
    ELSE IF depth_and_half >= 2 THEN 2
    ELSE 1

\* tegra_swizzle::mip_block_height
RECURSIVE mip_block_height(_, _)
mip_block_height(mip_height, block_height) ==
    IF mip_height <= (block_height \div 2) * 8 /\ block_height > 1
    THEN mip_block_height(mip_height, block_height \div 2)
    ELSE block_height

\* tegra_swizzle::swizzle::swizzled_mip_size
swizzled_mip_size(width, height, depth, block_height, bpp) ==
    LET width_in_gobs == div_round_up(width * bpp, 64)
        height_in_gobs == div_round_up(height, block_height * 8) * block_height
        depth_in_gobs == round_up(depth, block_depth(depth))
    IN width_in_gobs * height_in_gobs * depth_in_gobs * GOB_SIZE_IN_BYTES

\* The width, height and depth in blocks of mip level mip.
MipBlocks(width, height, depth, bdim, mip) ==
    [width |-> div_round_up(Max(Shr(width, mip), 1), bdim.width),
     height |-> div_round_up(Max(Shr(height, mip), 1), bdim.height),
     depth |-> div_round_up(Max(Shr(depth, mip), 1), bdim.depth)]

\* The tiled size of mip level mip of a surface.
TiledMipSize(width, height, depth, bdim, block_height, bpp, mip) ==
    LET b == MipBlocks(width, height, depth, bdim, mip) IN
    swizzled_mip_size(b.width, b.height, b.depth,
                      mip_block_height(b.height, block_height), bpp)

\* The linear (untiled) size of mip level mip of a surface.
LinearMipSize(width, height, depth, bdim, bpp, mip) ==
    LET b == MipBlocks(width, height, depth, bdim, mip) IN
    b.width * b.height * b.depth * bpp

\* The tiled size of one layer, aligned between layers.
TiledLayerSize(width, height, depth, bdim, block_height, bpp, mipmap_count, layer_count) ==
    LET mips == SumSeq([m \in 1..mipmap_count |->
                    TiledMipSize(width, height, depth, bdim, block_height, bpp, m - 1)])
        gob_height == mip_block_height(div_round_up(height, bdim.height), block_height)
    IN IF layer_count > 1 THEN round_up(mips, gob_height * GOB_SIZE_IN_BYTES) ELSE mips

LinearLayerSize(width, height, depth, bdim, bpp, mipmap_count) ==
    SumSeq([m \in 1..mipmap_count |->
               LinearMipSize(width, height, depth, bdim, bpp, m - 1)])

\* tegra_swizzle::surface::swizzle_surface: the surface is rejected when it has
\* more mip levels than a u32 has bits or when the source is too short.
swizzle_surface(width, height, depth, source, bdim, block_height, bpp, mipmap_count, layer_count) ==
    IF mipmap_count > 32
    THEN Err([kind |-> "SwizzleError", format |-> "InvalidSurface"])
    ELSE LET expected == LinearLayerSize(width, height, depth, bdim, bpp, mipmap_count)
                             * layer_count
             tiled == TiledLayerSize(width, height, depth, bdim, block_height, bpp,
                                     mipmap_count, layer_count) * layer_count
         IN IF Len(source) < expected
            THEN Err([kind |-> "SwizzleError", format |-> "NotEnoughData"])
            ELSE Ok(SubSeq(source, 1, expected) \o Zeros(tiled - expected))

\* tegra_swizzle::surface::deswizzle_surface, the inverse.
deswizzle_surface(width, height, depth, source, bdim, bpp, mipmap_count, layer_count) ==
    IF mipmap_count > 32
    THEN Err([kind |-> "SwizzleError", format |-> "InvalidSurface"])
    ELSE LET block_height == block_height_mip0(div_round_up(height, bdim.height))
             expected == TiledLayerSize(width, height, depth, bdim, block_height, bpp,
                                        mipmap_count, layer_count) * layer_count
             linear == LinearLayerSize(width, height, depth, bdim, bpp, mipmap_count)
                           * layer_count
         IN IF Len(source) < expected
            THEN Err([kind |-> "SwizzleError", format |-> "NotEnoughData"])
            ELSE Ok(SubSeq(source, 1, linear))

\* ------------------------------------------------------------ from_surface

\* Filled in during writing by xc3_write.
TEMP_OFFSET == 0

BRTD_SECTION_START == 4080
SIZE_OF_BRTD == 16
START_OF_TEXTURE_DATA == BRTD_SECTION_START + SIZE_OF_BRTD

\* calculate_mipmap_offsets: the loop over mip = 0 .. mipmap_count - 1, with
\* offsets the vector pushed so far and mipmap_offset the running sum.
RECURSIVE MipOffsetsLoop(_, _, _, _, _, _, _, _, _, _)
MipOffsetsLoop(mip, offsets, mipmap_offset, mipmap_count, width, bdim, height, depth, block_height, bpp) ==
    IF mip >= mipmap_count THEN offsets
    ELSE MipOffsetsLoop(mip + 1,
                        Append(offsets, START_OF_TEXTURE_DATA + mipmap_offset),
                        mipmap_offset
                          + TiledMipSize(width, height, depth, bdim, block_height, bpp, mip),
                        mipmap_count, width, bdim, height, depth, block_height, bpp)

\* calculate_mipmap_offsets, had the loop not added mip_size to mipmap_offset.
calculate_mipmap_offsets_no_sum(mipmap_count, width, bdim, height, depth, block_height, bpp) ==
    [mip \in 1..mipmap_count |-> START_OF_TEXTURE_DATA]

\* calculate_mipmap_offsets, had the loop started at mip 1.
calculate_mipmap_offsets_from_mip1(mipmap_count, width, bdim, height, depth, block_height, bpp) ==
    MipOffsetsLoop(1, <<>>, 0, mipmap_count, width, bdim, height, depth, block_height, bpp)

calculate_mipmap_offsets(mipmap_count, width, bdim, height, depth, block_height, bpp) ==
    MipOffsetsLoop(0, <<>>, 0, mipmap_count, width, bdim, height, depth, block_height, bpp)

BlockHeightLog2(block_height) ==
    CASE block_height = 1 -> 0
      [] block_height = 2 -> 1
      [] block_height = 4 -> 2
      [] block_height = 8 -> 3
      [] block_height = 16 -> 4
      [] block_height = 32 -> 5

\* The relocation table of from_surface, had its second section counted two
\* entries where the table holds one.
FromSurfaceRelocTableMiscounted ==
    [position |-> TEMP_OFFSET, count |-> 2, unk1 |-> 0,
     sections |->
       << [pointer |-> 0, position |-> TEMP_OFFSET, size |-> TEMP_OFFSET,
           index |-> 0, count |-> 4],
          [pointer |-> 0, position |-> TEMP_OFFSET, size |-> TEMP_OFFSET,
           index |-> 4, count |-> 2] >>,
     entries |->
       << [position |-> TEMP_OFFSET, struct_count |-> 2, offset_count |-> 1,
           padding_count |-> 45],
          [position |-> TEMP_OFFSET, struct_count |-> 2, offset_count |-> 2,
           padding_count |-> 70],
          [position |-> TEMP_OFFSET, struct_count |-> 2, offset_count |-> 1,
           padding_count |-> 1],
          [position |-> TEMP_OFFSET, struct_count |-> 1, offset_count |-> 3,
           padding_count |-> 0],
          [position |-> TEMP_OFFSET, struct_count |-> 2, offset_count |-> 1,
           padding_count |-> 140] >>]

\* The relocation table that from_surface hard codes.
FromSurfaceRelocTable ==
    [position |-> TEMP_OFFSET, count |-> 2, unk1 |-> 0,
     sections |->
       << [pointer |-> 0, position |-> TEMP_OFFSET, size |-> TEMP_OFFSET,
           index |-> 0, count |-> 4],
          [pointer |-> 0, position |-> TEMP_OFFSET, size |-> TEMP_OFFSET,
           index |-> 4, count |-> 1] >>,
     entries |->
       << [position |-> TEMP_OFFSET, struct_count |-> 2, offset_count |-> 1,
           padding_count |-> 45],
          [position |-> TEMP_OFFSET, struct_count |-> 2, offset_count |-> 2,
           padding_count |-> 70],
          [position |-> TEMP_OFFSET, struct_count |-> 2, offset_count |-> 1,
           padding_count |-> 1],
          [position |-> TEMP_OFFSET, struct_count |-> 1, offset_count |-> 3,
           padding_count |-> 0],
          [position |-> TEMP_OFFSET, struct_count |-> 2, offset_count |-> 1,
           padding_count |-> 140] >>]

\* The dictionary of from_surface, had it declared the number of its nodes
\* instead of the number of its entries.
FromSurfaceDictCountingNodes ==
    [node_count |-> 2,
     nodes |-> << [reference |-> 0 - 1, left_index |-> 1, right_index |-> 0,
                   name_offset |-> 436],
                  [reference |-> 0, left_index |-> 0, right_index |-> 1,
                   name_offset |-> 440] >>]

\* The dictionary of from_surface, had node 1 named the characters of the
\* string instead of the string.
FromSurfaceDictAtChars ==
    [node_count |-> 1,
     nodes |-> << [reference |-> 0 - 1, left_index |-> 1, right_index |-> 0,
                   name_offset |-> 436],
                  [reference |-> 0, left_index |-> 0, right_index |-> 1,
                   name_offset |-> 442] >>]

\* The dictionary that from_surface hard codes.
FromSurfaceDict ==
    [node_count |-> 1,
     nodes |-> << [reference |-> 0 - 1, left_index |-> 1, right_index |-> 0,
                   name_offset |-> 436],
                  [reference |-> 0, left_index |-> 0, right_index |-> 1,
                   name_offset |-> 440] >>]

\* The Bntx value from_surface returns once the format, the tiled data and
\* the mip offsets are known.
FromSurfaceBntx(surface, name, format, block_height, data, mipmap_offsets) ==
    [unk |-> 0,
     version |-> <<0, 4>>,
     bom |-> "LittleEndian",
     header |->
       [revision |-> 16396,
        file_name |-> TEMP_OFFSET,
        unk |-> 0,
        str_section |->
          [block_size |-> TEMP_OFFSET, block_offset |-> TEMP_OFFSET, str_count |-> 1,
           empty |-> <<>>, strings |-> << name >>],
        reloc_table |-> FromSurfaceRelocTable,
        file_size |-> TEMP_OFFSET],
     nx_header |->
       [brtis |->
          << [size |-> 3576,
              size2 |-> 3576,
              flags |-> 1,
              texture_dimension |-> IF surface.depth > 1 THEN "D3" ELSE "D2",
              tile_mode |-> 0,
              swizzle |-> 0,
              mipmap_count |-> surface.mipmaps % 65536,
              multi_sample_count |-> 1,
              image_format |-> format,
              unk2 |-> 32,
              width |-> surface.width,
              height |-> surface.height,
              depth |-> surface.depth,
              layer_count |-> surface.layers,
              block_height_log2 |-> BlockHeightLog2(block_height),
              unk4 |-> <<65543, 0, 0, 0, 0, 0>>,
              image_size |-> Len(data),
              align |-> 512,
              comp_sel |-> 84148994,
              texture_view_dimension |->
                IF surface.depth > 1 THEN "D3"
                ELSE IF surface.layers = 6 THEN "Cube" ELSE "D2",
              name_addr |-> TEMP_OFFSET,
              parent_addr |-> 32,
              mipmaps |-> [mipmap_offsets |-> mipmap_offsets],
              unk5 |-> 0,
              unk6 |-> Zeros(256),
              unk7 |-> Zeros(256),
              unk |-> <<0, 0, 0, 0>>] >>,
        brtd |-> [image_data |-> data],
        dict |-> FromSurfaceDict,
        dict_size |-> 88,
        unk |-> Zeros(42)]]

\* Bntx::from_surface
from_surface(surface, name) ==
    Bind(SurfaceFormatTryFrom(surface.image_format), LAMBDA fmt :
    IF ~IsOk(fmt) THEN fmt
    ELSE
    Bind(block_dim(fmt.val), LAMBDA bd :
    Bind(bytes_per_pixel(fmt.val), LAMBDA bpp :
    IF ~IsOk(bd) THEN bd
    ELSE IF ~IsOk(bpp) THEN bpp
    ELSE
    Bind(block_height_mip0(div_round_up(surface.height, bd.val.height)),
         LAMBDA block_height :
    Bind(swizzle_surface(surface.width, surface.height, surface.depth,
                         surface.data, bd.val, block_height, bpp.val,
                         surface.mipmaps, surface.layers), LAMBDA data :
    IF ~IsOk(data) THEN data
    ELSE Ok(FromSurfaceBntx(surface, name, fmt.val, block_height, data.val,
              calculate_mipmap_offsets(surface.mipmaps, surface.width, bd.val,
                                       surface.height, surface.depth, block_height,
                                       bpp.val))))))))

\* ------------------------------------------------------------------- bytes

\* The n bytes of v, least significant first (two's complement when v < 0).
LEBytes(v, n) ==
    [i \in 1..n |-> IF i <= 4 THEN (v \div (256 ^ (i - 1))) % 256
                    ELSE IF v < 0 THEN 255 ELSE 0]

Reverse(s) == [i \in 1..Len(s) |-> s[Len(s) + 1 - i]]

\* An integer field of n bytes in the byte order endian.
IntBytes(v, n, endian) == IF endian = "Little" THEN LEBytes(v, n) ELSE Reverse(LEBytes(v, n))

\* The largest integer of the model: a field read from a file that does not
\* fit is read as this value, which is past the end of every file.
Huge == 2147483646 + 1

\* The unsigned integer of n <= 8 bytes at offset off of buf.
ReadUInt(buf, off, n, endian) ==
    LET b == IF endian = "Little" THEN SubSeq(buf, off + 1, off + n)
             ELSE Reverse(SubSeq(buf, off + 1, off + n))
    IN IF (\E i \in 5..n : b[i] # 0) \/ (n >= 4 /\ b[4] >= 128) THEN Huge
       ELSE SumSeq([i \in 1..n |-> IF i <= 4 THEN b[i] * (256 ^ (i - 1)) ELSE 0])

\* The i32 at offset off of buf.
ReadI32(buf, off, endian) ==
    LET b == IF endian = "Little" THEN SubSeq(buf, off + 1, off + 4)
             ELSE Reverse(SubSeq(buf, off + 1, off + 4))
    IN b[1] + b[2] * 256 + b[3] * 65536
         + (IF b[4] >= 128 THEN b[4] - 256 ELSE b[4]) * 16777216

\* Whether v fits an unsigned integer of n bytes (P::try_from(u64)).
FitsUInt(v, n) ==
    /\ v >= 0
    /\ CASE n = 1 -> v < 256
         [] n = 2 -> v < 65536
         [] OTHER -> TRUE

next_multiple_of(x, a) == ((x + a - 1) \div a) * a

\* A struct as it is written: the sequence of its fields, each a name and
\* the bytes written for it.
Field(name, bytes) == [n |-> name, b |-> bytes]

StructBytes(fields) == Flatten([i \in 1..Len(fields) |-> fields[i].b])

\* The offset of field name from the start of the struct.
FieldPos(fields, name) ==
    LET k == CHOOSE i \in 1..Len(fields) : fields[i].n = name
    IN SumSeq([j \in 1..(k - 1) |-> Len(fields[j].b)])

MagicBNTX == <<66, 78, 84, 88>>
MagicNX == <<78, 88, 32, 32>>
MagicSTR == <<95, 83, 84, 82>>
MagicRLT == <<95, 82, 76, 84>>
MagicDIC == <<95, 68, 73, 67>>
MagicBRTI == <<66, 82, 84, 73>>
MagicBRTD == <<66, 82, 84, 68>>

\* enum ByteOrder: the magic bytes of each variant.
ByteOrderBytes(bom) == IF bom = "LittleEndian" THEN <<255, 254>> ELSE <<254, 255>>

\* enum TextureDimension (repr(u8)) and TextureViewDimension (repr(u32)).
TextureDimensionRepr(d) == CASE d = "D1" -> 1 [] d = "D2" -> 2 [] d = "D3" -> 3
TextureViewDimensionRepr(d) ==
    CASE d = "D1" -> 0 [] d = "D2" -> 1 [] d = "D3" -> 2 [] d = "Cube" -> 3

\* ----------------------------------------------- the structs, as written
\* Offsets and shared offsets are written as 0 and patched later.

\* Bntx, with Header and NxHeader inline (derive(Xc3Write)).
BntxFields(c, endian) ==
    << Field("magic", MagicBNTX),
       Field("unk", IntBytes(c.unk, 4, endian)),
       Field("version", IntBytes(c.version[1], 2, endian)
                          \o IntBytes(c.version[2], 2, endian)),
       Field("bom", ByteOrderBytes(c.bom)),
       Field("revision", IntBytes(c.header.revision, 2, endian)),
       Field("file_name", IntBytes(0, 4, endian)),
       Field("header_unk", IntBytes(c.header.unk, 2, endian)),
       Field("str_section", IntBytes(0, 2, endian)),
       Field("reloc_table", IntBytes(0, 4, endian)),
       Field("file_size", IntBytes(0, 4, endian)),
       Field("nx_magic", MagicNX),
       Field("count", IntBytes(Len(c.nx_header.brtis), 4, endian)),
       Field("brtis", IntBytes(0, 8, endian)),
       Field("brtd", IntBytes(0, 8, endian)),
       Field("dict", IntBytes(0, 8, endian)),
       Field("dict_size", IntBytes(c.nx_header.dict_size, 8, endian)),
       Field("nx_unk", Flatten([i \in 1..Len(c.nx_header.unk) |->
                                   IntBytes(c.nx_header.unk[i], 8, endian)])) >>

\* BntxStr (binrw): len = chars.len() as u16, the bytes, pad_after = 1 and
\* align_after = 2 of the stream position pos + written.
BntxStrBytes(chars, pos, endian) ==
    LET body == IntBytes(Len(chars) % 65536, 2, endian) \o chars \o <<0>>
        end == pos + Len(body)
    IN body \o Zeros(next_multiple_of(end, 2) - end)

RECURSIVE BntxStrsBytes(_, _, _)
BntxStrsBytes(strings, pos, endian) ==
    IF strings = <<>> THEN <<>>
    ELSE LET first == BntxStrBytes(Head(strings), pos, endian)
         IN first \o BntxStrsBytes(Tail(strings), pos + Len(first), endian)

\* StrSection written at pos; strings has align_after = 8.
StrSectionFields(ss, pos, endian) ==
    LET empty == BntxStrBytes(ss.empty, pos + 20, endian)
        strs == BntxStrsBytes(ss.strings, pos + 20 + Len(empty), endian)
        end == pos + 20 + Len(empty) + Len(strs)
    IN << Field("magic", MagicSTR),
          Field("block_size", IntBytes(0, 4, endian)),
          Field("block_offset", IntBytes(0, 8, endian)),
          Field("str_count", IntBytes(ss.str_count, 4, endian)),
          Field("empty", empty),
          Field("strings", strs \o Zeros(next_multiple_of(end, 8) - end)) >>

DictNodeBytes(n, endian) ==
    IntBytes(n.reference, 4, endian) \o IntBytes(n.left_index, 2, endian)
      \o IntBytes(n.right_index, 2, endian) \o IntBytes(n.name_offset, 8, endian)

\* DictSection (binrw)
DictSectionBytes(d, endian) ==
    MagicDIC \o IntBytes(d.node_count, 4, endian)
      \o Flatten([i \in 1..Len(d.nodes) |-> DictNodeBytes(d.nodes[i], endian)])

\* Brti
BrtiFields(b, endian) ==
    << Field("magic", MagicBRTI),
       Field("size", IntBytes(0, 4, endian)),
       Field("size2", IntBytes(0, 8, endian)),
       Field("flags", IntBytes(b.flags, 1, endian)),
       Field("texture_dimension",
             IntBytes(TextureDimensionRepr(b.texture_dimension), 1, endian)),
       Field("tile_mode", IntBytes(b.tile_mode, 2, endian)),
       Field("swizzle", IntBytes(b.swizzle, 2, endian)),
       Field("mipmap_count", IntBytes(b.mipmap_count, 2, endian)),
       Field("multi_sample_count", IntBytes(b.multi_sample_count, 4, endian)),
       Field("image_format", IntBytes(SurfaceFormatRepr(b.image_format), 4, endian)),
       Field("unk2", IntBytes(b.unk2, 4, endian)),
       Field("width", IntBytes(b.width, 4, endian)),
       Field("height", IntBytes(b.height, 4, endian)),
       Field("depth", IntBytes(b.depth, 4, endian)),
       Field("layer_count", IntBytes(b.layer_count, 4, endian)),
       Field("block_height_log2", IntBytes(b.block_height_log2, 4, endian)),
       Field("unk4", Flatten([i \in 1..6 |-> IntBytes(b.unk4[i], 4, endian)])),
       Field("image_size", IntBytes(b.image_size, 4, endian)),
       Field("align", IntBytes(b.align, 4, endian)),
       Field("comp_sel", IntBytes(b.comp_sel, 4, endian)),
       Field("texture_view_dimension",
             IntBytes(TextureViewDimensionRepr(b.texture_view_dimension), 4, endian)),
       Field("name_addr", IntBytes(0, 8, endian)),
       Field("parent_addr", IntBytes(0, 8, endian)),
       Field("mipmaps", IntBytes(0, 8, endian)),
       Field("unk5", IntBytes(b.unk5, 8, endian)),
       Field("unk6", IntBytes(0, 8, endian)),
       Field("unk7", IntBytes(0, 8, endian)),
       Field("unk", Flatten([i \in 1..4 |-> IntBytes(b.unk[i], 4, endian)])) >>

\* Mipmaps (binrw)
MipmapsBytes(m, endian) ==
    Flatten([i \in 1..Len(m.mipmap_offsets) |-> IntBytes(m.mipmap_offsets[i], 8, endian)])

\* Brtd (binrw): the magic, pad_before = 4, brtd_size = image_data.len() + 16.
BrtdBytes(d, endian) ==
    MagicBRTD \o Zeros(4) \o IntBytes(Len(d.image_data) + 16, 8, endian) \o d.image_data

RelocationSectionFields(s, endian) ==
    << Field("pointer", IntBytes(s.pointer, 8, endian)),
       Field("position", IntBytes(0, 4, endian)),
       Field("size", IntBytes(0, 4, endian)),
       Field("index", IntBytes(s.index, 4, endian)),
       Field("count", IntBytes(s.count, 4, endian)) >>

RelocationEntryFields(r, endian) ==
    << Field("position", IntBytes(0, 4, endian)),
       Field("struct_count", IntBytes(r.struct_count, 2, endian)),
       Field("offset_count", IntBytes(r.offset_count, 1, endian)),
       Field("padding_count", IntBytes(r.padding_count, 1, endian)) >>

\* RelocationTable
RelocationTableFields(t, endian) ==
    << Field("magic", MagicRLT),
       Field("position", IntBytes(0, 4, endian)),
       Field("count", IntBytes(t.count, 4, endian)),
       Field("unk1", IntBytes(t.unk1, 4, endian)),
       Field("sections", Flatten([i \in 1..Len(t.sections) |->
                 StructBytes(RelocationSectionFields(t.sections[i], endian))])),
       Field("entries", Flatten([i \in 1..Len(t.entries) |->
                 StructBytes(RelocationEntryFields(t.entries[i], endian))])) >>

\* The sizes of one RelocationSection and one RelocationEntry as written.
SizeOfRelocationSection == 8 + 4 + 4 + 4 + 4
SizeOfRelocationEntry == 4 + 2 + 1 + 1

\* ------------------------------------------------------------- the writer
\* The state of one encode pass: the sink (buf, with its stream position
\* pos), the data pointer that threads through write_offsets, the positions
\* write_offsets records, and the log of the writes made so far (for each,
\* what was written, whether it is data, padding or a patched offset, where,
\* and how many bytes).

NewWriter ==
    [buf |-> <<>>, pos |-> 0, data_ptr |-> 0, status |-> "Run", log |-> <<>>,
     brtis_at |-> 0, str_section_pos |-> 0, dict_pos |-> 0, brtis_pos |-> 0,
     brti_positions |-> <<>>, after_brti_pos |-> 0, reloc_table_pos |-> 0]

\* Write::write_all at stream position pos; the gap past the end of the sink
\* reads as zeros.
Put(buf, pos, bytes) ==
    IF bytes = <<>> THEN buf
    ELSE IF pos >= Len(buf) THEN buf \o Zeros(pos - Len(buf)) \o bytes
    ELSE SubSeq(buf, 1, pos) \o bytes \o SubSeq(buf, pos + Len(bytes) + 1, Len(buf))

WriteBytes(e, what, kind, bytes) ==
    Bind(e, LAMBDA w :
    Bind(bytes, LAMBDA b :
    IF b = <<>> THEN w
    ELSE [w EXCEPT !.buf = Put(w.buf, w.pos, b),
                   !.pos = w.pos + Len(b),
                   !.log = Append(w.log, [what |-> what, kind |-> kind, at |-> w.pos,
                                             len |-> Len(b),
                                             bytes |-> IF kind = "offset" THEN b
                                                       ELSE <<>>])]))

BumpDataPtr(e) == Bind(e, LAMBDA w : [w EXCEPT !.data_ptr = Max(w.data_ptr, w.pos)])

\* xc3_write Offset::set_offset: seek to the field and write the offset as
\* the pointer type P of n bytes; P::try_from(offset).unwrap() aborts when
\* the value does not fit (a u64 that wrapped below zero never fits).
set_offset(e, what, field, n, offset, endian) ==
    Bind(e, LAMBDA w :
    IF w.status # "Run" THEN w
    ELSE IF ~FitsUInt(offset, n)
    THEN [w EXCEPT !.status = "Panic", !.pos = field]
    ELSE WriteBytes([w EXCEPT !.pos = field], what, "offset", IntBytes(offset, n, endian)))

\* xc3_write Offset::write and Offset::write_full (base_offset = 0): point
\* the field at the aligned data pointer, pad up to it, write the data there
\* and move the data pointer past it.
OffsetWrite(e, what, field, n, alignment, bytes, endian) ==
    Bind(e, LAMBDA w :
    IF w.status # "Run" THEN w
    ELSE
    Bind(next_multiple_of(w.data_ptr, alignment), LAMBDA aligned :
    Bind(set_offset(w, what, field, n, aligned, endian), LAMBDA e1 :
    IF e1.status # "Run" THEN e1
    ELSE
    Bind(BumpDataPtr(WriteBytes([e1 EXCEPT !.pos = e1.data_ptr], what, "padding",
                                Zeros(aligned - e1.data_ptr))), LAMBDA e2 :
    BumpDataPtr(WriteBytes(e2, what, "data", bytes))))))

\* Bntx::write: write_full starts with xc3_write of the Bntx struct at
\* position 0 and moves the data pointer (0) past it.
WriteBntx(e, c, endian) ==
    BumpDataPtr(WriteBytes(e, "bntx", "data", StructBytes(BntxFields(c, endian))))

\* write_offsets: nx_header.brtis.write, the table of descriptor pointers.
WriteBrtis(e, c, endian) ==
    Bind(e, LAMBDA w :
    IF w.status # "Run" \/ c.nx_header.brtis = <<>> THEN w
    ELSE
    Bind(OffsetWrite(w, "brtis", FieldPos(BntxFields(c, endian), "brtis"), 8, 4,
                     Flatten([i \in 1..Len(c.nx_header.brtis) |-> IntBytes(0, 8, endian)]),
                     endian), LAMBDA e1 :
    [e1 EXCEPT !.brtis_at = next_multiple_of(w.data_ptr, 4)]))

\* write_offsets: str_section_pos and header.str_section.write.
WriteStrSection(e, c, endian) ==
    Bind(e, LAMBDA w :
    IF w.status # "Run" THEN w
    ELSE OffsetWrite([w EXCEPT !.str_section_pos = w.data_ptr], "str_section",
                     FieldPos(BntxFields(c, endian), "str_section"), 2, 4,
                     StructBytes(StrSectionFields(c.header.str_section,
                                                  next_multiple_of(w.data_ptr, 4), endian)),
                     endian))

\* SetFileName, had file_name pointed to the length prefix of the string.
SetFileNameAtPrefix(e, c, endian) ==
    Bind(e, LAMBDA w :
    set_offset(w, "file_name", FieldPos(BntxFields(c, endian), "file_name"), 4,
               w.str_section_pos + 24, endian))

\* write_offsets: header.file_name points to the string chars.
SetFileName(e, c, endian) ==
    Bind(e, LAMBDA w :
    set_offset(w, "file_name", FieldPos(BntxFields(c, endian), "file_name"), 4,
               w.str_section_pos + 26, endian))

\* write_offsets: dict_pos and nx_header.dict.write_full.
WriteDict(e, c, endian) ==
    Bind(e, LAMBDA w :
    IF w.status # "Run" THEN w
    ELSE OffsetWrite([w EXCEPT !.dict_pos = next_multiple_of(w.data_ptr, 8)], "dict",
                     FieldPos(BntxFields(c, endian), "dict"), 8, 8,
                     DictSectionBytes(c.nx_header.dict, endian), endian))

\* write_offsets: str_section.block_offset and block_size, then brtis_pos.
SetStrBlock(e, c, endian) ==
    Bind(e, LAMBDA w :
    IF w.status # "Run" THEN w
    ELSE
    Bind(next_multiple_of(w.str_section_pos, 4), LAMBDA at :
    Bind(StrSectionFields(c.header.str_section, at, endian), LAMBDA fields :
    Bind(set_offset(w, "block_offset", at + FieldPos(fields, "block_offset"), 8,
                    w.data_ptr - w.str_section_pos, endian), LAMBDA e1 :
    Bind(set_offset(e1, "block_size", at + FieldPos(fields, "block_size"), 4,
                    w.data_ptr - w.str_section_pos, endian), LAMBDA e2 :
    [e2 EXCEPT !.brtis_pos = w.data_ptr])))))

\* write_offsets: one iteration of the loop over brtis.0, for descriptor i.
WriteBrti(e, c, i, endian) ==
    Bind(e, LAMBDA w :
    IF w.status # "Run" THEN w
    ELSE
    Bind(c.nx_header.brtis[i], LAMBDA brti :
    Bind(w.data_ptr, LAMBDA brti_position :
    Bind(next_multiple_of(brti_position, 4), LAMBDA at :
    Bind(BrtiFields(brti, endian), LAMBDA fields :
    Bind(OffsetWrite([w EXCEPT !.brti_positions = Append(w.brti_positions, brti_position)],
                     "brti", w.brtis_at + 8 * (i - 1), 8, 4, StructBytes(fields), endian),
         LAMBDA e1 :
    Bind(set_offset(e1, "size", at + FieldPos(fields, "size"), 4,
                    4080 - brti_position, endian), LAMBDA e2 :
    Bind(set_offset(e2, "size2", at + FieldPos(fields, "size2"), 8,
                    4080 - brti_position, endian), LAMBDA e3 :
    Bind(set_offset(e3, "name_addr", at + FieldPos(fields, "name_addr"), 8,
                    w.str_section_pos + 24, endian), LAMBDA e4 :
    Bind(set_offset(e4, "parent_addr", at + FieldPos(fields, "parent_addr"), 8,
                    32, endian), LAMBDA e5 :
    Bind(OffsetWrite(e5, "unk6", at + FieldPos(fields, "unk6"), 8, 1,
                     brti.unk6, endian), LAMBDA e6 :
    Bind(OffsetWrite(e6, "unk7", at + FieldPos(fields, "unk7"), 8, 1,
                     brti.unk7, endian), LAMBDA e7 :
    OffsetWrite(e7, "mipmaps", at + FieldPos(fields, "mipmaps"), 8, 8,
                MipmapsBytes(brti.mipmaps, endian), endian)))))))))))))

RECURSIVE WriteBrtiLoop(_, _, _, _)
WriteBrtiLoop(e, c, i, endian) ==
    IF i > Len(c.nx_header.brtis) THEN e
    ELSE WriteBrtiLoop(WriteBrti(e, c, i, endian), c, i + 1, endian)

\* write_offsets: after_brti_pos, the data pointer forced to 4080, and
\* nx_header.brtd.write_full.
WriteBrtd(e, c, endian) ==
    Bind(e, LAMBDA w :
    IF w.status # "Run" THEN w
    ELSE OffsetWrite([w EXCEPT !.after_brti_pos = w.data_ptr, !.data_ptr = 4080],
                     "brtd", FieldPos(BntxFields(c, endian), "brtd"), 8, 8,
                     BrtdBytes(c.nx_header.brtd, endian), endian))

\* write_offsets: reloc_table_pos, header.reloc_table.write and the table's
\* own position.
WriteRelocTable(e, c, endian) ==
    Bind(e, LAMBDA w :
    IF w.status # "Run" THEN w
    ELSE
    Bind(RelocationTableFields(c.header.reloc_table, endian), LAMBDA fields :
    Bind(OffsetWrite([w EXCEPT !.reloc_table_pos = w.data_ptr], "reloc_table",
                     FieldPos(BntxFields(c, endian), "reloc_table"), 4, 4,
                     StructBytes(fields), endian), LAMBDA e1 :
    set_offset(e1, "reloc_position",
               next_multiple_of(w.data_ptr, 4) + FieldPos(fields, "position"), 4,
               w.data_ptr, endian))))

\* The position of field name of section k (from 0) of the table at at.
SectionField(c, at, k, name, endian) ==
    at + FieldPos(RelocationTableFields(c.header.reloc_table, endian), "sections")
       + k * SizeOfRelocationSection
       + FieldPos(RelocationSectionFields(c.header.reloc_table.sections[k + 1], endian), name)

\* The position of entry k (from 0) of the table at at.
EntryField(c, at, k, endian) ==
    at + FieldPos(RelocationTableFields(c.header.reloc_table, endian), "entries")
       + k * SizeOfRelocationEntry

\* Indexing a Vec past its end aborts.
IndexPanic(e) == Bind(e, LAMBDA w : IF w.status # "Run" THEN w ELSE [w EXCEPT !.status = "Panic"])

\* SetRelocSections, had the size of section 0 been taken at the start of the
\* relocation table.
SetRelocSectionsUpToTable(e, c, endian) ==
    Bind(e, LAMBDA w :
    Bind(next_multiple_of(w.reloc_table_pos, 4), LAMBDA at :
    Bind(Len(c.header.reloc_table.sections), LAMBDA n :
    Bind(IF n < 1 THEN IndexPanic(w)
         ELSE set_offset(w, "section0_size", SectionField(c, at, 0, "size", endian),
                         4, w.reloc_table_pos, endian), LAMBDA e1 :
    Bind(IF n < 2 THEN IndexPanic(e1)
         ELSE set_offset(e1, "section1_position",
                         SectionField(c, at, 1, "position", endian), 4, 4080, endian),
         LAMBDA e2 :
    IF n < 2 THEN e2
    ELSE set_offset(e2, "section1_size", SectionField(c, at, 1, "size", endian), 4,
                    Len(c.nx_header.brtd.image_data) + 16, endian))))))

\* write_offsets: the patches of sections.0[0] and sections.0[1].
SetRelocSections(e, c, endian) ==
    Bind(e, LAMBDA w :
    Bind(next_multiple_of(w.reloc_table_pos, 4), LAMBDA at :
    Bind(Len(c.header.reloc_table.sections), LAMBDA n :
    Bind(IF n < 1 THEN IndexPanic(w)
         ELSE set_offset(w, "section0_size", SectionField(c, at, 0, "size", endian),
                         4, w.after_brti_pos, endian), LAMBDA e1 :
    Bind(IF n < 2 THEN IndexPanic(e1)
         ELSE set_offset(e1, "section1_position",
                         SectionField(c, at, 1, "position", endian), 4, 4080, endian),
         LAMBDA e2 :
    IF n < 2 THEN e2
    ELSE set_offset(e2, "section1_size", SectionField(c, at, 1, "size", endian), 4,
                    Len(c.nx_header.brtd.image_data) + 16, endian))))))

\* The values patched into entries.0[0] .. entries.0[4].
EntryPositions(e) == << 40, 56, e.dict_pos + 16, e.brtis_pos + 96, 48 >>

RECURSIVE SetRelocEntriesFrom(_, _, _, _)
SetRelocEntriesFrom(e, c, k, endian) ==
    Bind(e, LAMBDA w :
    IF k >= 5 THEN w
    ELSE IF k >= Len(c.header.reloc_table.entries) THEN IndexPanic(w)
    ELSE SetRelocEntriesFrom(
             set_offset(w, "entry_position",
                        EntryField(c, next_multiple_of(w.reloc_table_pos, 4), k, endian),
                        4, EntryPositions(w)[k + 1], endian),
             c, k + 1, endian))

\* write_offsets: the patches of entries.0[0] .. entries.0[4].
SetRelocEntries(e, c, endian) == SetRelocEntriesFrom(e, c, 0, endian)

\* write_offsets: header.file_size.write_full, which sets the field to the
\* data pointer and writes no data; then Ok(()).
WriteFileSize(e, c, endian) ==
    Bind(e, LAMBDA w :
    Bind(set_offset(w, "file_size", FieldPos(BntxFields(c, endian), "file_size"), 4,
                    w.data_ptr, endian), LAMBDA e1 :
    IF e1.status # "Run" THEN e1
    ELSE [e1 EXCEPT !.pos = e1.data_ptr, !.status = "Ok"]))

\* BntxOffsets::write_offsets
write_offsets(e, c, endian) ==
    WriteFileSize(
      SetRelocEntries(
        SetRelocSections(
          WriteRelocTable(
            WriteBrtd(
              WriteBrtiLoop(
                SetStrBlock(
                  WriteDict(
                    SetFileName(
                      WriteStrSection(
                        WriteBrtis(e, c, endian),
                        c, endian),
                      c, endian),
                    c, endian),
                  c, endian),
                c, 1, endian),
              c, endian),
            c, endian),
          c, endian),
        c, endian),
      c, endian)

\* The encode pass of container c with every field in byte order endian.
WriteFull(c, endian) == write_offsets(WriteBntx(NewWriter, c, endian), c, endian)

\* Bntx::write: write_full with Endian::Little.
write(c) == WriteFull(c, "Little")

\* ------------------------------------------------------------- the reader
\* The binrw parsers of lib.rs over a file buf.  Every parser returns Ok of
\* the value, Err of the binrw error, or Panic; checks is whether the build
\* has overflow checks (a debug build) or wraps (a release build).

ErrEof == Err([kind |-> "Io"])
ErrMagic == Err([kind |-> "BadMagic"])
ErrVariant == Err([kind |-> "NoVariantMatch"])

Avail(buf, off, n) == off >= 0 /\ n >= 0 /\ off <= Len(buf) /\ n <= Len(buf) - off

HasMagic(buf, off, magic) == SubSeq(buf, off + 1, off + Len(magic)) = magic

Endian(bom) == IF bom = "LittleEndian" THEN "Little" ELSE "Big"

\* String::from_utf8_lossy on the bytes read, for bytes that are ASCII or
\* not part of any valid sequence: the latter become U+FFFD.
from_utf8_lossy(bytes) ==
    IF \A i \in 1..Len(bytes) : bytes[i] < 128 THEN bytes
    ELSE Flatten([i \in 1..Len(bytes) |->
                     IF bytes[i] < 128 THEN << bytes[i] >> ELSE << 239, 191, 189 >>])

\* BntxStr: len, len bytes, pad_after = 1, align_after = 2.  val.next is the
\* stream position after the string.
ParseBntxStr(buf, off, endian) ==
    IF ~Avail(buf, off, 2) THEN ErrEof
    ELSE Bind(ReadUInt(buf, off, 2, endian), LAMBDA len :
         IF ~Avail(buf, off + 2, len) THEN ErrEof
         ELSE Ok([chars |-> from_utf8_lossy(SubSeq(buf, off + 3, off + 2 + len)),
                  next |-> next_multiple_of(off + 2 + len + 1, 2)]))

\* count BntxStr from off; acc is the strings read so far.
RECURSIVE ParseBntxStrs(_, _, _, _, _)
ParseBntxStrs(buf, off, count, acc, endian) ==
    IF count = 0 THEN Ok(acc)
    ELSE Bind(ParseBntxStr(buf, off, endian), LAMBDA r :
         IF ~IsOk(r) THEN r
         ELSE ParseBntxStrs(buf, r.val.next, count - 1, Append(acc, r.val.chars), endian))

ParseStrSection(buf, off, endian) ==
    IF ~Avail(buf, off, 4) THEN ErrEof
    ELSE IF ~HasMagic(buf, off, MagicSTR) THEN ErrMagic
    ELSE IF ~Avail(buf, off, 20) THEN ErrEof
    ELSE
    Bind(ReadUInt(buf, off + 16, 4, endian), LAMBDA str_count :
    Bind(ParseBntxStr(buf, off + 20, endian), LAMBDA empty :
    IF ~IsOk(empty) THEN empty
    ELSE
    Bind(ParseBntxStrs(buf, empty.val.next, str_count, <<>>, endian), LAMBDA strings :
    IF ~IsOk(strings) THEN strings
    ELSE Ok([block_size |-> ReadUInt(buf, off + 4, 4, endian),
             block_offset |-> ReadUInt(buf, off + 8, 8, endian),
             str_count |-> str_count,
             empty |-> empty.val.chars,
             strings |-> strings.val]))))

ParseRelocationSection(buf, off, endian) ==
    [pointer |-> ReadUInt(buf, off, 8, endian),
     position |-> ReadUInt(buf, off + 8, 4, endian),
     size |-> ReadUInt(buf, off + 12, 4, endian),
     index |-> ReadUInt(buf, off + 16, 4, endian),
     count |-> ReadUInt(buf, off + 20, 4, endian)]

ParseRelocationEntry(buf, off, endian) ==
    [position |-> ReadUInt(buf, off, 4, endian),
     struct_count |-> ReadUInt(buf, off + 4, 2, endian),
     offset_count |-> ReadUInt(buf, off + 6, 1, endian),
     padding_count |-> ReadUInt(buf, off + 7, 1, endian)]

\* RelocationTable: count sections, then sum of their counts entries.
ParseRelocationTable(buf, off, endian) ==
    IF ~Avail(buf, off, 4) THEN ErrEof
    ELSE IF ~HasMagic(buf, off, MagicRLT) THEN ErrMagic
    ELSE IF ~Avail(buf, off, 16) THEN ErrEof
    ELSE
    Bind(ReadUInt(buf, off + 8, 4, endian), LAMBDA count :
    IF count > (Len(buf) - (off + 16)) \div SizeOfRelocationSection THEN ErrEof
    ELSE
    Bind([i \in 1..count |->
             ParseRelocationSection(buf, off + 16 + (i - 1) * SizeOfRelocationSection,
                                    endian)], LAMBDA sections :
    Bind(off + 16 + count * SizeOfRelocationSection, LAMBDA entries_at :
    Bind(\A i \in 1..count : sections[i].count <= Len(buf), LAMBDA fits :
    Bind(IF fits THEN SumSeq([i \in 1..count |-> sections[i].count]) ELSE Huge, LAMBDA n :
    IF n > (Len(buf) - entries_at) \div SizeOfRelocationEntry THEN ErrEof
    ELSE Ok([position |-> ReadUInt(buf, off + 4, 4, endian),
             count |-> count,
             unk1 |-> ReadUInt(buf, off + 12, 4, endian),
             sections |-> sections,
             entries |-> [i \in 1..n |->
                            ParseRelocationEntry(buf, entries_at
                                                      + (i - 1) * SizeOfRelocationEntry,
                                                 endian)]]))))))

ParseDictNode(buf, off, endian) ==
    [reference |-> ReadI32(buf, off, endian),
     left_index |-> ReadUInt(buf, off + 4, 2, endian),
     right_index |-> ReadUInt(buf, off + 6, 2, endian),
     name_offset |-> ReadUInt(buf, off + 8, 8, endian)]

\* DictSection: node_count + 1 nodes; the addition overflows u32 when
\* node_count is 2^32 - 1.
ParseDictSection(buf, off, endian, checks) ==
    IF ~Avail(buf, off, 4) THEN ErrEof
    ELSE IF ~HasMagic(buf, off, MagicDIC) THEN ErrMagic
    ELSE IF ~Avail(buf, off, 8) THEN ErrEof
    ELSE
    Bind(ReadUInt(buf, off + 4, 4, endian), LAMBDA node_count :
    Bind(SubSeq(buf, off + 5, off + 8) = <<255, 255, 255, 255>>, LAMBDA all_ones :
    Bind(IF all_ones THEN 0 ELSE IF node_count = Huge THEN Huge ELSE node_count + 1,
         LAMBDA n :
    IF all_ones /\ checks THEN Panic("attempt to add with overflow")
    ELSE IF n > (Len(buf) - (off + 8)) \div 16 THEN ErrEof
    ELSE Ok([node_count |-> node_count,
             nodes |-> [i \in 1..n |->
                          ParseDictNode(buf, off + 8 + (i - 1) * 16, endian)]]))))

\* Brtd: the magic, pad_before = 4, brtd_size, then brtd_size - 16 bytes; the
\* subtraction overflows u64 when brtd_size < 16.
ParseBrtd(buf, off, endian, checks) ==
    IF ~Avail(buf, off, 4) THEN ErrEof
    ELSE IF ~HasMagic(buf, off, MagicBRTD) THEN ErrMagic
    ELSE IF ~Avail(buf, off, 16) THEN ErrEof
    ELSE
    Bind(ReadUInt(buf, off + 8, 8, endian), LAMBDA brtd_size :
    IF brtd_size < 16
    THEN IF checks THEN Panic("attempt to subtract with overflow") ELSE ErrEof
    ELSE IF ~Avail(buf, off + 16, brtd_size - 16) THEN ErrEof
    ELSE Ok([image_data |-> SubSeq(buf, off + 17, off + brtd_size)]))

\* Mipmaps: mipmap_count offsets.
ParseMipmaps(buf, off, mipmap_count, endian) ==
    IF ~Avail(buf, off, 0) \/ mipmap_count > (Len(buf) - off) \div 8 THEN ErrEof
    ELSE Ok([mipmap_offsets |-> [i \in 1..mipmap_count |->
                                    ReadUInt(buf, off + (i - 1) * 8, 8, endian)]])

SurfaceFormatOfRepr(v) ==
    IF \E f \in SurfaceFormats : SurfaceFormatRepr(f) = v
    THEN Ok(CHOOSE f \in SurfaceFormats : SurfaceFormatRepr(f) = v)
    ELSE ErrVariant

TextureDimensionOfRepr(v) ==
    CASE v = 1 -> Ok("D1") [] v = 2 -> Ok("D2") [] v = 3 -> Ok("D3") [] OTHER -> ErrVariant

TextureViewDimensionOfRepr(v) ==
    CASE v = 0 -> Ok("D1") [] v = 1 -> Ok("D2") [] v = 2 -> Ok("D3") [] v = 3 -> Ok("Cube")
      [] OTHER -> ErrVariant

\* Brti: its fields in order; mipmaps, unk6 and unk7 through FilePtr64.
ParseBrti(buf, off, endian) ==
    IF ~Avail(buf, off, 4) THEN ErrEof
    ELSE IF ~HasMagic(buf, off, MagicBRTI) THEN ErrMagic
    ELSE IF ~Avail(buf, off, 160) THEN ErrEof
    ELSE
    LET U(o, n) == ReadUInt(buf, off + o, n, endian) IN
    Bind(TextureDimensionOfRepr(U(17, 1)), LAMBDA dim :
    Bind(SurfaceFormatOfRepr(U(28, 4)), LAMBDA format :
    Bind(TextureViewDimensionOfRepr(U(92, 4)), LAMBDA view :
    Bind(U(22, 2), LAMBDA mipmap_count :
    Bind(ParseMipmaps(buf, U(112, 8), mipmap_count, endian), LAMBDA mipmaps :
    Bind(U(128, 8), LAMBDA unk6_at :
    Bind(U(136, 8), LAMBDA unk7_at :
       IF ~IsOk(dim) THEN dim
       ELSE IF ~IsOk(format) THEN format
       ELSE IF ~IsOk(view) THEN view
       ELSE IF ~IsOk(mipmaps) THEN mipmaps
       ELSE IF ~Avail(buf, unk6_at, 256) \/ ~Avail(buf, unk7_at, 256) THEN ErrEof
       ELSE Ok([size |-> U(4, 4),
                size2 |-> U(8, 8),
                flags |-> U(16, 1),
                texture_dimension |-> dim.val,
                tile_mode |-> U(18, 2),
                swizzle |-> U(20, 2),
                mipmap_count |-> mipmap_count,
                multi_sample_count |-> U(24, 4),
                image_format |-> format.val,
                unk2 |-> U(32, 4),
                width |-> U(36, 4),
                height |-> U(40, 4),
                depth |-> U(44, 4),
                layer_count |-> U(48, 4),
                block_height_log2 |-> U(52, 4),
                unk4 |-> [i \in 1..6 |-> U(56 + (i - 1) * 4, 4)],
                image_size |-> U(80, 4),
                align |-> U(84, 4),
                comp_sel |-> U(88, 4),
                texture_view_dimension |-> view.val,
                name_addr |-> U(96, 8),
                parent_addr |-> U(104, 8),
                mipmaps |-> mipmaps.val,
                unk5 |-> U(120, 8),
                unk6 |-> SubSeq(buf, unk6_at + 1, unk6_at + 256),
                unk7 |-> SubSeq(buf, unk7_at + 1, unk7_at + 256),
                unk |-> [i \in 1..4 |-> U(144 + (i - 1) * 4, 4)]]))))))))

\* Vec<BrtiOffset>: count pointers from off, each resolved to a Brti.
RECURSIVE ParseBrtis(_, _, _, _, _)
ParseBrtis(buf, off, count, acc, endian) ==
    IF count = 0 THEN Ok(acc)
    ELSE IF ~Avail(buf, off, 8) THEN ErrEof
    ELSE Bind(ParseBrti(buf, ReadUInt(buf, off, 8, endian), endian), LAMBDA r :
         IF ~IsOk(r) THEN r
         ELSE ParseBrtis(buf, off + 8, count - 1, Append(acc, r.val), endian))

\* Header, at offset 14 of the file.
ParseHeader(buf, endian) ==
    IF ~Avail(buf, 14, 10) THEN ErrEof
    ELSE
    Bind(ParseStrSection(buf, ReadUInt(buf, 22, 2, endian), endian), LAMBDA str_section :
    IF ~IsOk(str_section) THEN str_section
    ELSE IF ~Avail(buf, 24, 4) THEN ErrEof
    ELSE
    Bind(ParseRelocationTable(buf, ReadUInt(buf, 24, 4, endian), endian),
         LAMBDA reloc_table :
    IF ~IsOk(reloc_table) THEN reloc_table
    ELSE IF ~Avail(buf, 28, 4) THEN ErrEof
    ELSE Ok([revision |-> ReadUInt(buf, 14, 2, endian),
             file_name |-> ReadUInt(buf, 16, 4, endian),
             unk |-> ReadUInt(buf, 20, 2, endian),
             str_section |-> str_section.val,
             reloc_table |-> reloc_table.val,
             file_size |-> ReadUInt(buf, 28, 4, endian)])))

\* NxHeader, at offset 32 of the file.
ParseNxHeader(buf, endian, checks) ==
    IF ~Avail(buf, 32, 4) THEN ErrEof
    ELSE IF ~HasMagic(buf, 32, MagicNX) THEN ErrMagic
    ELSE IF ~Avail(buf, 36, 12) THEN ErrEof
    ELSE
    Bind(ParseBrtis(buf, ReadUInt(buf, 40, 8, endian),
                    ReadUInt(buf, 36, 4, endian), <<>>, endian), LAMBDA brtis :
    IF ~IsOk(brtis) THEN brtis
    ELSE IF ~Avail(buf, 48, 8) THEN ErrEof
    ELSE
    Bind(ParseBrtd(buf, ReadUInt(buf, 48, 8, endian), endian, checks), LAMBDA brtd :
    IF ~IsOk(brtd) THEN brtd
    ELSE IF ~Avail(buf, 56, 8) THEN ErrEof
    ELSE
    Bind(ParseDictSection(buf, ReadUInt(buf, 56, 8, endian), endian, checks),
         LAMBDA dict :
    IF ~IsOk(dict) THEN dict
    ELSE IF ~Avail(buf, 64, 8 + 42 * 8) THEN ErrEof
    ELSE Ok([brtis |-> brtis.val,
             brtd |-> brtd.val,
             dict |-> dict.val,
             dict_size |-> ReadUInt(buf, 64, 8, endian),
             unk |-> [i \in 1..42 |-> ReadUInt(buf, 72 + (i - 1) * 8, 8, endian)]]))))

\* Bntx::from_file: reader.read_le().  The magic, unk and version are read
\* little endian; bom selects the byte order of header and nx_header.
from_file(buf, checks) ==
    IF ~Avail(buf, 0, 4) THEN ErrEof
    ELSE IF ~HasMagic(buf, 0, MagicBNTX) THEN ErrMagic
    ELSE IF ~Avail(buf, 4, 10) THEN ErrEof
    ELSE
    Bind(SubSeq(buf, 13, 14), LAMBDA bomBytes :
    IF bomBytes # <<255, 254>> /\ bomBytes # <<254, 255>> THEN ErrVariant
    ELSE
    Bind(IF bomBytes = <<255, 254>> THEN "LittleEndian" ELSE "BigEndian", LAMBDA bom :
    Bind(ParseHeader(buf, Endian(bom)), LAMBDA header :
    IF ~IsOk(header) THEN header
    ELSE
    Bind(ParseNxHeader(buf, Endian(bom), checks), LAMBDA nx_header :
    IF ~IsOk(nx_header) THEN nx_header
    ELSE Ok([unk |-> ReadUInt(buf, 4, 4, "Little"),
             version |-> << ReadUInt(buf, 8, 2, "Little"), ReadUInt(buf, 10, 2, "Little") >>,
             bom |-> bom,
             header |-> header.val,
             nx_header |-> nx_header.val])))))

\* ------------------------------------------------------ export operations

\* Bntx::deswizzled_data: brtis[0], then the arguments of deswizzle_surface
\* in order (block_dim before bytes_per_pixel), then the call.  calls lists
\* the functions entered.
deswizzled_data(c) ==
    IF c.nx_header.brtis = <<>>
    THEN [res |-> Panic("index out of bounds"), calls |-> <<>>]
    ELSE
    LET info == c.nx_header.brtis[1]
        bd == block_dim(info.image_format)
        bpp == bytes_per_pixel(info.image_format)
    IN IF ~IsOk(bd) THEN [res |-> bd, calls |-> << "block_dim" >>]
       ELSE IF ~IsOk(bpp) THEN [res |-> bpp, calls |-> << "block_dim", "bytes_per_pixel" >>]
       ELSE [res |-> deswizzle_surface(info.width, info.height, info.depth,
                                       c.nx_header.brtd.image_data, bd.val, bpp.val,
                                       info.mipmap_count, info.layer_count),
             calls |-> << "block_dim", "bytes_per_pixel", "deswizzle_surface" >>]

\* Bntx::to_surface, had the Surface literal evaluated data before
\* image_format.
to_surface_data_first(c) ==
    IF c.nx_header.brtis = <<>>
    THEN [res |-> Panic("index out of bounds"), calls |-> <<>>]
    ELSE
    LET info == c.nx_header.brtis[1] IN
    Bind(deswizzled_data(c), LAMBDA data :
    Bind(ImageFormatTryFrom(info.image_format), LAMBDA fmt :
    IF ~IsOk(data.res) THEN [res |-> data.res, calls |-> data.calls]
    ELSE IF ~IsOk(fmt) THEN [res |-> fmt, calls |-> Append(data.calls, "try_into")]
    ELSE [res |-> Ok([width |-> info.width, height |-> info.height,
                      depth |-> info.depth, layers |-> info.layer_count,
                      mipmaps |-> info.mipmap_count, image_format |-> fmt.val,
                      data |-> data.res.val]),
          calls |-> Append(data.calls, "try_into")]))

\* Bntx::to_surface: the fields of the Surface literal in order, image_format
\* (try_into()?) before data (deswizzled_data()?).
to_surface(c) ==
    IF c.nx_header.brtis = <<>>
    THEN [res |-> Panic("index out of bounds"), calls |-> <<>>]
    ELSE
    LET info == c.nx_header.brtis[1]
        fmt == ImageFormatTryFrom(info.image_format)
    IN IF ~IsOk(fmt) THEN [res |-> fmt, calls |-> << "try_into" >>]
       ELSE
       Bind(deswizzled_data(c), LAMBDA data :
       IF ~IsOk(data.res)
       THEN [res |-> data.res, calls |-> << "try_into" >> \o data.calls]
       ELSE [res |-> Ok([width |-> info.width, height |-> info.height,
                         depth |-> info.depth, layers |-> info.layer_count,
                         mipmaps |-> info.mipmap_count, image_format |-> fmt.val,
                         data |-> data.res.val]),
             calls |-> << "try_into" >> \o data.calls])

\* Bntx::to_dds: the same Surface literal, then image_dds Surface::to_dds,
\* which succeeds or fails (codec_ok) outside the model.
to_dds(c, codec_ok) ==
    Bind(to_surface(c), LAMBDA s :
    IF ~IsOk(s.res) THEN s
    ELSE IF codec_ok THEN [res |-> Ok([dds |-> s.res.val]), calls |-> Append(s.calls, "to_dds")]
    ELSE [res |-> Err([kind |-> "Dds"]), calls |-> Append(s.calls, "to_dds")])

\* ------------------------------------------------------------------ inputs

\* The bytes of an input surface: n bytes that depend on their position.
SurfaceData(n) == [i \in 1..n |-> (i * 7) % 256]

\* The number of bytes a surface of this geometry and format holds.
SurfaceDataLen(width, height, depth, layers, mipmaps, image_format) ==
    LET f == SurfaceFormatTryFrom(image_format) IN
    IF ~IsOk(f) THEN 16
    ELSE LinearLayerSize(width, height, depth, block_dim(f.val).val,
                         bytes_per_pixel(f.val).val, mipmaps) * layers

MakeSurface(width, height, depth, layers, mipmaps, image_format) ==
    [width |-> width, height |-> height, depth |-> depth, layers |-> layers,
     mipmaps |-> mipmaps, image_format |-> image_format,
     data |-> SurfaceData(SurfaceDataLen(width, height, depth, layers, mipmaps,
                                         image_format))]

Dims == {1, 3} \cup {4 * k : k \in 1..MaxDimBlocks}

\* A name of n ASCII bytes.
MakeName(n) == [i \in 1..n |-> 97 + (i % 26)]

\* The name lengths with which the descriptor ends at offset 4080, starts 40
\* bytes before it, and starts 8 bytes after it (the name starts at 443, the
\* dictionary takes 40).
OverlapNameLen == BRTD_SECTION_START - 160 - 40 - 443
LongNameLen == BRTD_SECTION_START - 40 - 40 - 443
TooLongNameLen == BRTD_SECTION_START + 8 - 40 - 443

BaseSurface == MakeSurface(8, 8, 1, 1, 2, "Rgba8Unorm")
BaseName == MakeName(MaxNameLen)

\* The smallest surface: one pixel of one byte, tiled into one 512-byte GOB.
SmallSurface == MakeSurface(1, 1, 1, 1, 1, "R8Unorm")

\* The base surface with a mip count above the 32 levels the tiling engine
\* accepts, and with one above the range of the 16-bit mipmap_count field.
ManyMipsSurfaces == { [BaseSurface EXCEPT !.mipmaps = m] : m \in { 33, 65536 + 1 } }

\* The surfaces and names given to from_surface: every interchange format on
\* the base geometry, every geometry on two formats, every name on the base
\* surface, and the mip counts beyond the ranges.
SurfaceInputs ==
    { << MakeSurface(8, 8, 1, 1, 2, g), BaseName >> : g \in ImageFormats }
    \cup { << MakeSurface(w, h, dl[1], dl[2], m, g), BaseName >> :
             w \in Dims, h \in Dims, dl \in { <<1, 1>>, <<2, 1>>, <<1, 6>> },
             m \in 1..MaxMips, g \in { "R8Unorm", "BC1RgbaUnorm" } }
    \cup { << BaseSurface, MakeName(n) >> :
             n \in (0..MaxNameLen) \cup { OverlapNameLen, LongNameLen, TooLongNameLen } }
    \cup { << sf, BaseName >> : sf \in ManyMipsSurfaces }
    \cup { << SmallSurface, MakeName(n) >> : n \in { MaxNameLen, LongNameLen } }

\* The container of the base surface, as other tools might write it: in big
\* endian, with any native format, or with fewer relocation sections.
BaseBntx == from_surface(BaseSurface, BaseName).val

WithFormat(c, f) == [c EXCEPT !.nx_header.brtis[1].image_format = f]

\* The file buf with the section count of its relocation table set to k.
WithSectionCount(buf, k) ==
    Put(buf, ReadUInt(buf, 24, 4, "Little") + 8, IntBytes(k, 4, "Little"))

\* The file of the base container, and files that differ from it: cut short
\* (in the header, in the sections, in the middle of the payload, in the
\* relocation table), with another magic, with a payload block that declares
\* a size below its own 16 bytes, and with a dictionary that declares
\* 2^32 - 1 nodes.
BaseFile == write(BaseBntx).buf

TruncatedFiles ==
    { SubSeq(BaseFile, 1, n) :
        n \in { 0, 3, 20, 420, START_OF_TEXTURE_DATA + 8, Len(BaseFile) - 1 } }

MidPayloadFile == SubSeq(BaseFile, 1, START_OF_TEXTURE_DATA + 8)

BadMagicFile == Put(BaseFile, 0, << 66, 78, 84, 89 >>)

SmallBrtdFiles ==
    { Put(BaseFile, ReadUInt(BaseFile, 48, 8, "Little") + 8, IntBytes(k, 8, "Little")) :
        k \in { 0, 15 } }

AllOnesNodeCountFile ==
    Put(BaseFile, ReadUInt(BaseFile, 56, 8, "Little") + 4, << 255, 255, 255, 255 >>)

MalformedFiles ==
    TruncatedFiles \cup { BadMagicFile, AllOnesNodeCountFile } \cup SmallBrtdFiles

FileInputs ==
    { BaseFile,
      WriteFull([BaseBntx EXCEPT !.bom = "BigEndian"], "Big").buf }
    \cup { write(WithFormat(BaseBntx, f)).buf : f \in SurfaceFormats }
    \cup { WithSectionCount(BaseFile, k) : k \in 0..1 }
    \cup MalformedFiles

\* ------------------------------------------------------- the state machine

VARIABLES
    phase,          \* what the session has done so far
    overflow_checks,\* whether the build checks integer overflow
    origin,         \* "from_surface", "from_file" or "none"
    surface,        \* the surface given to from_surface
    name,           \* the name given to from_surface
    file,           \* the bytes given to from_file
    bntx,           \* the result of from_surface or from_file
    written,        \* the writer after Bntx::write
    readback,       \* the result of from_file on the bytes written
    rewritten,      \* the writer after Bntx::write of the container read back
    exported,       \* the result of to_surface, to_dds or deswizzled_data
    reimported      \* the result of from_surface on the surface exported

vars == << phase, overflow_checks, origin, surface, name, file, bntx, written, readback,
           rewritten, exported, reimported >>

None == [tag |-> "None"]
NoExport == [res |-> None, calls |-> <<>>]
NoWriter == [NewWriter EXCEPT !.status = "None"]

Init ==
    /\ phase = "start"
    /\ overflow_checks \in BOOLEAN
    /\ origin = "none"
    /\ surface = None
    /\ name = <<>>
    /\ file = <<>>
    /\ bntx = None
    /\ written = NoWriter
    /\ readback = None
    /\ rewritten = NoWriter
    /\ exported = NoExport
    /\ reimported = None

\* Bntx::from_surface(surface, name)
FromSurface ==
    /\ phase = "start"
    /\ \E input \in SurfaceInputs :
         /\ surface' = input[1]
         /\ name' = input[2]
         /\ bntx' = from_surface(input[1], input[2])
    /\ origin' = "from_surface"
    /\ phase' = "ready"
    /\ UNCHANGED << overflow_checks, file, written, readback, rewritten, exported, reimported >>

\* Bntx::from_file(path) on a file written by another tool
FromFile ==
    /\ phase = "start"
    /\ \E buf \in FileInputs :
         /\ file' = buf
         /\ bntx' = from_file(buf, overflow_checks)
    /\ origin' = "from_file"
    /\ phase' = "ready"
    /\ UNCHANGED << overflow_checks, surface, name, written, readback, rewritten,
                    exported, reimported >>

\* bntx.write(writer) on a sink that never fails
Write ==
    /\ phase = "ready"
    /\ IsOk(bntx)
    /\ written' = write(bntx.val)
    /\ phase' = "written"
    /\ UNCHANGED << overflow_checks, file, origin, surface, name, bntx, readback, rewritten,
                    exported, reimported >>

\* Bntx::from_file on the bytes written
ReadBack ==
    /\ phase = "written"
    /\ written.status = "Ok"
    /\ readback' = from_file(written.buf, overflow_checks)
    /\ phase' = "readback"
    /\ UNCHANGED << overflow_checks, file, origin, surface, name, bntx, written, rewritten,
                    exported, reimported >>

\* write of the container read back
ReWrite ==
    /\ phase = "readback"
    /\ IsOk(readback)
    /\ rewritten' = write(readback.val)
    /\ phase' = "rewritten"
    /\ UNCHANGED << overflow_checks, file, origin, surface, name, bntx, written, readback,
                    exported, reimported >>

\* bntx.to_surface()
ToSurface ==
    /\ phase = "ready"
    /\ IsOk(bntx)
    /\ exported' = to_surface(bntx.val)
    /\ phase' = "to_surface"
    /\ UNCHANGED << overflow_checks, file, origin, surface, name, bntx, written, readback,
                    rewritten, reimported >>

\* bntx.to_dds()
ToDds ==
    /\ phase = "ready"
    /\ IsOk(bntx)
    /\ \E codec_ok \in BOOLEAN : exported' = to_dds(bntx.val, codec_ok)
    /\ phase' = "to_dds"
    /\ UNCHANGED << overflow_checks, file, origin, surface, name, bntx, written, readback,
                    rewritten, reimported >>

\* bntx.deswizzled_data()
DeswizzledData ==
    /\ phase = "ready"
    /\ IsOk(bntx)
    /\ exported' = deswizzled_data(bntx.val)
    /\ phase' = "deswizzled_data"
    /\ UNCHANGED << overflow_checks, file, origin, surface, name, bntx, written, readback,
                    rewritten, reimported >>

\* Bntx::from_surface on the surface that to_surface returned
Reimport ==
    /\ phase = "to_surface"
    /\ IsOk(exported.res)
    /\ reimported' = from_surface(exported.res.val, name)
    /\ phase' = "reimported"
    /\ UNCHANGED << overflow_checks, file, origin, surface, name, bntx, written, readback,
                    rewritten, exported >>

Next ==
    \/ FromSurface
    \/ FromFile
    \/ Write
    \/ ReadBack
    \/ ReWrite
    \/ ToSurface
    \/ ToDds
    \/ DeswizzledData
    \/ Reimport

Spec == Init /\ [][Next]_vars

\* ------------------------------------------------------------- properties

\* The format of the first texture descriptor of the container in hand.
NativeFormat == bntx.val.nx_header.brtis[1].image_format

\* The fields of a container that say what the texture is: its geometry,
\* format, names and payload.
Semantic(c) ==
    [width |-> c.nx_header.brtis[1].width,
     height |-> c.nx_header.brtis[1].height,
     depth |-> c.nx_header.brtis[1].depth,
     layer_count |-> c.nx_header.brtis[1].layer_count,
     mipmap_count |-> c.nx_header.brtis[1].mipmap_count,
     image_format |-> c.nx_header.brtis[1].image_format,
     names |-> c.header.str_section.strings,
     image_data |-> c.nx_header.brtd.image_data]

\* C1: a container built by from_surface is encoded by write without
\* failure, and decoding the bytes written succeeds and yields the width,
\* height, depth, layer count, mip count, format, name and payload of the
\* container that was encoded.
C1_RoundTrip ==
    (origin = "from_surface" /\ phase \in { "written", "readback" }) =>
        /\ written.status = "Ok"
        /\ phase = "readback" =>
             IsOk(readback) /\ Semantic(readback.val) = Semantic(bntx.val)

\* C2: for a container read from a file of either byte order, the fields
\* written after the byte-order marker are in the order the marker declares
\* (the revision is), and decoding the bytes written yields the marker and
\* the field values of the container that was encoded.
C2_ByteOrderGoverns ==
    (origin = "from_file" /\ phase = "readback") =>
        /\ SubSeq(written.buf, 15, 16)
             = IntBytes(bntx.val.header.revision, 2, Endian(bntx.val.bom))
        /\ IsOk(readback)
        /\ readback.val.bom = bntx.val.bom
        /\ Semantic(readback.val) = Semantic(bntx.val)

\* C3: for a container built by from_surface, write succeeds, the bytes
\* written decode, and writing the decoded container succeeds and produces
\* the same bytes.
C3_ReencodeIdentical ==
    origin = "from_surface" =>
        /\ phase = "written" => written.status = "Ok"
        /\ phase = "readback" => IsOk(readback)
        /\ phase = "rewritten" =>
             rewritten.status = "Ok" /\ rewritten.buf = written.buf

\* C4: when to_surface converts the native format f of a container to an
\* interchange format g, converting g back gives f, and from_surface on the
\* surface exported builds a container of format f.
C4_FormatRoundTrip ==
    /\ (phase = "to_surface" /\ IsOk(exported.res)) =>
          SurfaceFormatTryFrom(exported.res.val.image_format) = Ok(NativeFormat)
    /\ phase = "reimported" =>
          /\ IsOk(reimported)
          /\ reimported.val.nx_header.brtis[1].image_format = NativeFormat

C4_Witness ==
    /\ phase = "reimported"
    /\ IsOk(reimported)
    /\ NativeFormat = "BC6Ufloat"
    /\ exported.res.val.image_format = "BC6hRgbUfloat"

\* The block compressed formats BC1 .. BC7.
BlockCompressedFormats ==
    { "BC1Unorm", "BC1Srgb", "BC2Unorm", "BC2Srgb", "BC3Unorm", "BC3Srgb", "BC4Unorm",
      "BC4Snorm", "BC5Unorm", "BC5Snorm", "BC6Sfloat", "BC6Ufloat", "BC7Unorm", "BC7Srgb" }

\* C5: for the format of every container, bytes_per_pixel and block_dim
\* return a value, the block is 4x4x1 for BC1 .. BC7 and 1x1x1 otherwise, and
\* deswizzled_data, which calls both, does not abort.
C5_MetadataTotal ==
    phase = "deswizzled_data" =>
        /\ IsOk(bytes_per_pixel(NativeFormat))
        /\ IsOk(block_dim(NativeFormat))
        /\ block_dim(NativeFormat).val
             = IF NativeFormat \in BlockCompressedFormats
               THEN [width |-> 4, height |-> 4, depth |-> 1]
               ELSE [width |-> 1, height |-> 1, depth |-> 1]
        /\ exported.res.tag # "Panic"

\* C6: to_surface and to_dds on a container of format Unk1 or R11G11B10
\* return the unsupported-format error carrying that format, having entered
\* neither the metadata lookup nor the untiling engine; from_surface on an
\* interchange format without native equivalent returns the
\* unsupported-format error and no container.
C6_UnsupportedFormatError ==
    /\ (phase \in { "to_surface", "to_dds" } /\ NativeFormat \in { "Unk1", "R11G11B10" }) =>
          /\ exported.res = Err([kind |-> "UnsupportedSurfaceFormat", format |-> NativeFormat])
          /\ exported.calls = << "try_into" >>
    /\ (origin = "from_surface"
          /\ surface.image_format \in { "Rgba16Float", "Rgba32Float", "Bgra4Unorm", "Other" }) =>
          bntx = Err([kind |-> "UnsupportedImageFormat", format |-> surface.image_format])

C6_Witness ==
    /\ phase = "to_dds"
    /\ NativeFormat = "Unk1"
    /\ exported.res.tag = "Err"
    /\ exported.calls = << "try_into" >>

\* C7: the mip offsets of a container built by from_surface from a surface
\* of M >= 1 mip levels are M offsets, the first 0x1000, each next one the
\* previous plus the tiled size of the previous level, computed from the
\* dimensions shifted right by the level (at least 1) in whole blocks.
C7_MipOffsets ==
    (origin = "from_surface" /\ IsOk(bntx)) =>
        LET offs == bntx.val.nx_header.brtis[1].mipmaps.mipmap_offsets
            bd == block_dim(NativeFormat).val
            bpp == bytes_per_pixel(NativeFormat).val
            bh == block_height_mip0((surface.height + bd.height - 1) \div bd.height)
            InBlocks(x, m, b) == (Max(x \div (2 ^ m), 1) + b - 1) \div b
            LevelSize(m) ==
                swizzled_mip_size(InBlocks(surface.width, m, bd.width),
                                  InBlocks(surface.height, m, bd.height),
                                  InBlocks(surface.depth, m, bd.depth),
                                  mip_block_height(InBlocks(surface.height, m, bd.height), bh),
                                  bpp)
        IN /\ Len(offs) = surface.mipmaps
           /\ offs[1] = 4096
           /\ \A m \in 1..(Len(offs) - 1) :
                /\ offs[m] <= offs[m + 1]
                /\ offs[m + 1] - offs[m] = LevelSize(m - 1)

C7_Witness ==
    /\ origin = "from_surface"
    /\ IsOk(bntx)
    /\ surface.mipmaps = MaxMips
    /\ surface.width = 4 * MaxDimBlocks
    /\ Len(bntx.val.nx_header.brtis[1].mipmaps.mipmap_offsets) = MaxMips
    /\ bntx.val.nx_header.brtis[1].mipmaps.mipmap_offsets[2] > 4096

\* The record the writer logged for the data named what.
Logged(e, what) ==
    e.log[CHOOSE i \in 1..Len(e.log) : e.log[i].what = what /\ e.log[i].kind = "data"]

\* C8: in the bytes of every successful write, the count fields of the
\* section records of the relocation table add up to the number of entry
\* records written after them, which are the entries of the container.
C8_RelocationCounts ==
    (phase = "written" /\ written.status = "Ok") =>
        LET at == next_multiple_of(written.reloc_table_pos, 4)
            count == ReadUInt(written.buf, at + 8, 4, "Little")
            n == SumSeq([i \in 1..count |->
                           ReadUInt(written.buf,
                                    at + 16 + (i - 1) * SizeOfRelocationSection + 20,
                                    4, "Little")])
        IN /\ n = Len(bntx.val.header.reloc_table.entries)
           /\ Logged(written, "reloc_table").at = at
           /\ Logged(written, "reloc_table").len
                = 16 + count * SizeOfRelocationSection + n * SizeOfRelocationEntry

C8_Witness ==
    /\ phase = "written"
    /\ written.status = "Ok"
    /\ origin = "from_surface"
    /\ Len(bntx.val.header.reloc_table.entries) = 5
    /\ Logged(written, "reloc_table").len = 16 + 2 * 24 + 5 * 8

\* C9: the dictionary of every container built by from_surface declares 1
\* node and holds 2, the first with reference -1 and left index 1, whatever
\* the surface and the name; the decoder reads the same 2 nodes back.
C9_DictionaryShape ==
    /\ (origin = "from_surface" /\ IsOk(bntx)) =>
          LET dict == bntx.val.nx_header.dict IN
          /\ dict.node_count = 1
          /\ Len(dict.nodes) = 2
          /\ Len(dict.nodes) = dict.node_count + 1
          /\ dict.nodes[1].reference = 0 - 1
          /\ dict.nodes[1].left_index = 1
    /\ (origin = "from_surface" /\ phase = "readback" /\ IsOk(readback)) =>
          readback.val.nx_header.dict = bntx.val.nx_header.dict

C9_Witness ==
    /\ origin = "from_surface"
    /\ phase = "readback"
    /\ IsOk(readback)
    /\ Len(name) = 0
    /\ Len(readback.val.nx_header.dict.nodes) = 2

\* C10: write of any container, on a sink that never fails, returns Ok.
C10_WriteNeverFails == phase = "written" => written.status = "Ok"


\* C11: decoding a byte stream ends in a container or in a decode error,
\* never in an abort; a file cut in the middle of the payload, a payload
\* block that declares a size below 16 and a dictionary that declares
\* 2^32 - 1 nodes each end in a decode error.
C11_DecodeNeverAborts ==
    origin = "from_file" =>
        /\ bntx.tag \in { "Ok", "Err" }
        /\ file \in { MidPayloadFile, AllOnesNodeCountFile } \cup SmallBrtdFiles
             => bntx.tag = "Err"


C12_ManyMipsRejected ==
    (origin = "from_surface" /\ surface.mipmaps > 32) => bntx.tag = "Err"


Range(s) == { s[i] : i \in DOMAIN s }

\* The value an offset patch named what left in the n bytes of its field.
Patched(e, what, n) ==
    LET r == CHOOSE r \in Range(e.log) : r.what = what /\ r.kind = "offset"
    IN ReadUInt(e.buf, r.at, n, "Little")

LastLogged(e) == e.log[Len(e.log)]

\* C13 (order): the patch of the header's file_size field is the last write
\* of an encode pass that succeeds, and it stores the final position of the
\* data pointer, which is the end of the relocation table.
C13_FileSizePatchedLast ==
    written.status = "Ok" =>
        /\ LastLogged(written).what = "file_size"
        /\ LastLogged(written).kind = "offset"
        /\ Patched(written, "file_size", 4) = written.data_ptr
        /\ written.data_ptr
             = written.reloc_table_pos
                 + Len(StructBytes(RelocationTableFields(bntx.val.header.reloc_table, "Little")))

\* C13: the file_size patch is the last write of the encode pass and its
\* value is the final data pointer, the end of the relocation table and the
\* total length of the encoded output.
C13_FileSizeIsLength ==
    /\ C13_FileSizePatchedLast
    /\ written.status = "Ok" => Patched(written, "file_size", 4) = Len(written.buf)


\* The field of section k (from 0) of the relocation table in the output of
\* encode pass e of container c.
SectionValue(e, c, k, field) ==
    ReadUInt(e.buf, SectionField(c, next_multiple_of(e.reloc_table_pos, 4), k, field, "Little"),
             4, "Little")

\* C14: in the output of a container built by from_surface, relocation
\* section 0 has position 0 and as size the data pointer recorded after the
\* descriptor's mip offset array; section 1 has position 4080 and as size the
\* payload length plus 16, the size the payload block declares.
C14_RelocationSections ==
    (origin = "from_surface" /\ written.status = "Ok") =>
        /\ SectionValue(written, bntx.val, 0, "position") = 0
        /\ SectionValue(written, bntx.val, 0, "size") = written.after_brti_pos
        /\ written.after_brti_pos
             = Logged(written, "mipmaps").at + Logged(written, "mipmaps").len
        /\ SectionValue(written, bntx.val, 1, "position") = BRTD_SECTION_START
        /\ SectionValue(written, bntx.val, 1, "size")
             = Len(bntx.val.nx_header.brtd.image_data) + SIZE_OF_BRTD
        /\ SectionValue(written, bntx.val, 1, "size")
             = ReadUInt(written.buf, BRTD_SECTION_START + 8, 8, "Little")

C14_Witness ==
    /\ origin = "from_surface"
    /\ written.status = "Ok"
    /\ surface.layers = 6
    /\ SectionValue(written, bntx.val, 0, "size") = written.after_brti_pos
    /\ SectionValue(written, bntx.val, 1, "size") > 512 + SIZE_OF_BRTD


\* The data and padding writes of encode pass e, in the order made.
DataWrites(e) == SelectSeq(e.log, LAMBDA r : r.kind # "offset")

\* The sections of encode pass e in the order their data was written.
SectionOrder(e) ==
    LET d == SelectSeq(e.log, LAMBDA r : r.kind = "data") IN [i \in 1..Len(d) |-> d[i].what]

\* C15 (order): every successful encode pass writes its sections in the
\* same order.
C15_SectionOrder ==
    (origin = "from_surface" /\ written.status = "Ok") =>
        SectionOrder(written)
            = << "bntx", "brtis", "str_section", "dict", "brti", "unk6", "unk7",
                 "mipmaps", "brtd", "reloc_table" >>

\* C15: in the output of a container built by from_surface the payload block
\* starts at 4080, forcing the data pointer to 4080 does not move it
\* backwards, and everything written before the payload block ends at or
\* before 4080.
C15_SectionsBeforePayload ==
    (origin = "from_surface" /\ written.status = "Ok") =>
        /\ Logged(written, "brtd").at = BRTD_SECTION_START
        /\ written.after_brti_pos <= BRTD_SECTION_START
        /\ \A r \in Range(DataWrites(written)) :
              r.what \notin { "brtd", "reloc_table" } => r.at + r.len <= BRTD_SECTION_START


\* C16: for the descriptor an encode pass writes, size and size2 are patched
\* to 4080 minus the position of the descriptor, whatever the container held,
\* and that difference is not negative and fits 32 bits.
C16_SizePatched ==
    written.brti_positions # <<>> =>
        LET size == BRTD_SECTION_START - written.brti_positions[1] IN
        /\ size >= 0
        /\ FitsUInt(size, 4)
        /\ written.status = "Ok" =>
              /\ Patched(written, "size", 4) = size
              /\ Patched(written, "size2", 8) = size

\* The patched sizes of the descriptors that start at or before 4080.
C16_SizePatchedWhenWritten ==
    written.status = "Ok" =>
        /\ Patched(written, "size", 4) = BRTD_SECTION_START - written.brti_positions[1]
        /\ Patched(written, "size2", 8) = BRTD_SECTION_START - written.brti_positions[1]


\* The value the offset patch named what of encode pass e wrote, of n bytes.
PatchValue(e, what, n) ==
    LET r == CHOOSE r \in Range(e.log) : r.what = what /\ r.kind = "offset"
    IN ReadUInt(r.bytes, 0, n, "Little")

\* C17 as stated: the descriptor's name_addr is patched to the offset that
\* is patched into the header's file_name.
C17_NameAddrIsFileName ==
    written.status = "Ok" =>
        PatchValue(written, "name_addr", 8) = PatchValue(written, "file_name", 4)

\* C17: in every encoder output the header's file_name is patched to the
\* string section start plus 26, where the characters of the first string
\* are, and the descriptor's name_addr is patched to the string section
\* start plus 24, where the 16-bit length of that string is, two bytes
\* before.
C17_NameAddrIsLengthPrefix ==
    written.status = "Ok" =>
        LET str == bntx.val.header.str_section.strings[1]
            file_name == PatchValue(written, "file_name", 4)
            name_addr == PatchValue(written, "name_addr", 8)
        IN /\ file_name = written.str_section_pos + 26
           /\ name_addr = written.str_section_pos + 24
           /\ SubSeq(written.buf, file_name + 1, file_name + Len(str)) = str
           /\ ReadUInt(written.buf, name_addr, 2, "Little") = Len(str)

C17_Witness ==
    /\ written.status = "Ok"
    /\ Len(bntx.val.header.str_section.strings[1]) = LongNameLen
    /\ PatchValue(written, "name_addr", 8) + 2 = PatchValue(written, "file_name", 4)


\* The name_offset of node k (from 0) of the dictionary in the output of
\* encode pass e.
NodeNameOffset(e, k) == ReadUInt(e.buf, e.dict_pos + 8 + 16 * k + 8, 8, "Little")

\* C18: in the output of a container built by from_surface, the name_offset
\* of dictionary node 1 (440) is the offset of the length prefix of the first
\* string and the value patched into name_addr (string section start + 24),
\* and the name_offset of node 0 (436) is the offset of the empty string,
\* for every name and surface.
C18_DictNameOffsets ==
    (origin = "from_surface" /\ written.status = "Ok") =>
        /\ NodeNameOffset(written, 1) = 440
        /\ NodeNameOffset(written, 1) = written.str_section_pos + 24
        /\ NodeNameOffset(written, 1) = PatchValue(written, "name_addr", 8)
        /\ ReadUInt(written.buf, NodeNameOffset(written, 1), 2, "Little") = Len(name)
        /\ SubSeq(written.buf, NodeNameOffset(written, 1) + 3,
                  NodeNameOffset(written, 1) + 2 + Len(name)) = name
        /\ NodeNameOffset(written, 0) = 436
        /\ NodeNameOffset(written, 0) = written.str_section_pos + 20
        /\ ReadUInt(written.buf, NodeNameOffset(written, 0), 2, "Little") = 0

C18_Witness ==
    /\ origin = "from_surface"
    /\ written.status = "Ok"
    /\ Len(name) = OverlapNameLen
    /\ NodeNameOffset(written, 1) = written.str_section_pos + 24
    /\ NodeNameOffset(written, 0) = written.str_section_pos + 20

====
